---- MODULE Spec2Model ----
(***************************************************************************)
(* Model of the smart-g-id backend (src/server.js, src/models/*.js):       *)
(* the HTTP handlers over the three collections users / goats / images     *)
(* and the uploads directory.  Every await of a handler is one step, so    *)
(* that requests interleave exactly where the event loop lets them.        *)
(***************************************************************************)
EXTENDS Integers, Sequences, FiniteSets, TLC

VARIABLES
    users,      \* the users collection
    goats,      \* the goats collection
    images,     \* the images collection
    files,      \* the uploads directory: the blob under each file name
    minted,     \* number of goat ObjectIds generated so far
    now,        \* Date.now()
    started,    \* number of requests received so far
    inflight,   \* the requests suspended at an await
    last        \* the request answered last, with its response

vars == <<users, goats, images, files, minted, now, started, inflight, last>>

(***************************************************************************)
(* Bounds                                                                  *)
(***************************************************************************)
\* number of requests that may be suspended at an await at once
MaxInflight == 2
\* number of requests ever started
MaxRequests == 3
\* last value of the millisecond clock
MaxTime == 1
\* number of requests ever started where the image steps interleave
MaxImageRequests == 2
\* number of requests ever started where the marketplace is exercised
MaxMarketRequests == 5

(***************************************************************************)
(* Strings are sequences of one-character strings, so that the schema      *)
(* setters trim / lowercase are computed and not assumed.                  *)
(***************************************************************************)
ToLowerChar(c) ==
    CASE c = "A" -> "a"
      [] c = "B" -> "b"
      [] OTHER -> c

ToLower(s) == [i \in 1..Len(s) |-> ToLowerChar(s[i])]

RECURSIVE TrimLeft(_)
TrimLeft(s) == IF s # <<>> /\ Head(s) = " " THEN TrimLeft(Tail(s)) ELSE s

RECURSIVE TrimRight(_)
TrimRight(s) ==
    IF s # <<>> /\ s[Len(s)] = " " THEN TrimRight(SubSeq(s, 1, Len(s) - 1)) ELSE s

Trim(s) == TrimRight(TrimLeft(s))

(***************************************************************************)
(* Identifiers.  An ObjectId string is modelled by an integer; BadId is a  *)
(* string that is not a 24-hex-digit ObjectId.                             *)
(***************************************************************************)
BadId == 0

ObjectIdIsValid(id) == id # BadId

Has(b, f) == f \in DOMAIN b

Drop(r, fs) == [f \in DOMAIN r \ fs |-> r[f]]

\* r overwritten by the fields of u
Merge(r, u) == [f \in DOMAIN r \cup DOMAIN u |-> IF f \in DOMAIN u THEN u[f] ELSE r[f]]

NextId(docs) == 1 + Cardinality({d.id : d \in docs})

(***************************************************************************)
(* bcryptjs                                                                *)
(***************************************************************************)
BcryptHash(pw) == <<"$2a$10$">> \o pw

BcryptCompare(pw, hash) == hash = BcryptHash(pw)

(***************************************************************************)
(* User schema (src/models/User.js)                                        *)
(***************************************************************************)
UserRequired == {"email", "password", "farmName", "address"}

\* setters of the schema paths, run on documents and on query filters
UserCast(doc) ==
    [f \in DOMAIN doc |->
        CASE f = "email" -> ToLower(Trim(doc[f]))
          [] f \in {"farmName", "address"} -> Trim(doc[f])
          [] OTHER -> doc[f]]

\* required validator: a missing path or an empty string fails
UserValid(doc) == \A f \in UserRequired : Has(doc, f) /\ doc[f] # <<>>

\* a findOne whose filter is compared as it was sent, setters not run
UserFindOneRaw(body) ==
    IF Has(body, "email") THEN {u \in users : u.email = body.email} ELSE {}

\* User.findOne({ email }): an undefined email matches only documents
\* without an email, of which the collection has none
UserFindOne(body) ==
    IF Has(body, "email")
    THEN {u \in users : u.email = UserCast([email |-> body.email]).email}
    ELSE {}

\* the unique index on email
EmailTaken(email) == \E u \in users : u.email = email

(***************************************************************************)
(* Goat schema (src/models/Goat.js) and Image schema (src/models/Image.js) *)
(***************************************************************************)
\* the paths POST /add-goat puts in its $set, besides addedAt
GoatSetFields ==
    {"owner", "name", "gender", "breed", "birthDate", "weight", "height", "healthStatus"}

GoatPaths == GoatSetFields \cup {"rfidTag", "price", "isForSale", "isSold", "addedAt"}

GoatRequired == {"owner", "rfidTag", "name", "gender", "breed", "birthDate", "weight", "height"}

GoatGenders == {"Male", "Female"}

\* defaults applied by setDefaultsOnInsert (addedAt is always in the $set)
GoatDefaults ==
    [healthStatus |-> <<"Healthy">>, price |-> 0, isForSale |-> FALSE, isSold |-> FALSE]

\* casting of an update: paths outside the schema are dropped (strict mode),
\* undefined values are dropped, the string setters run
GoatCast(upd) ==
    [f \in DOMAIN upd \cap GoatPaths |->
        IF f \in {"rfidTag", "name"} THEN Trim(upd[f]) ELSE upd[f]]

\* a value that cannot be cast to the type of its path raises a CastError
GoatCastFails(upd) == Has(upd, "owner") /\ ~ObjectIdIsValid(upd.owner)

\* what Document validation would demand; findOneAndUpdate and
\* findByIdAndUpdate are called without runValidators, so nothing checks it
GoatSchemaValid(doc) ==
    /\ \A f \in GoatRequired : Has(doc, f)
    /\ doc.gender \in GoatGenders

GoatsByTag(tag) == {g \in goats : g.rfidTag = tag}

GoatsById(id) == {g \in goats : g.id = id}

\* a lookup of images that does not compare the goat
ImagesOfAny(id) == images

ImagesOf(id) == {i \in images : i.goatId = id}

\* the upsert as a plain insert: the filter on rfidTag finds nothing
UpsertedInsertOnly(body, at) ==
    Merge(Merge(GoatDefaults, [id |-> minted + 1, rfidTag |-> Trim(body.rfidTag)]),
          Merge(GoatCast(Drop(body, DOMAIN body \ GoatSetFields)), [addedAt |-> at]))

\* an upsert that sets the owner only when it inserts
UpsertedKeepsOwner(body, at) ==
    LET tag == Trim(body.rfidTag)
        set == Merge(GoatCast(Drop(body, DOMAIN body \ GoatSetFields)), [addedAt |-> at])
    IN IF GoatsByTag(tag) # {}
       THEN Merge(CHOOSE g \in GoatsByTag(tag) : TRUE, Drop(set, {"owner"}))
       ELSE Merge(Merge(GoatDefaults, [id |-> minted + 1, rfidTag |-> tag]), set)

\* an upsert that replaces the document, so that the defaults apply again
UpsertedReplaced(body, at) ==
    LET tag == Trim(body.rfidTag)
        set == Merge(GoatCast(Drop(body, DOMAIN body \ GoatSetFields)), [addedAt |-> at])
        id == IF GoatsByTag(tag) # {} THEN (CHOOSE g \in GoatsByTag(tag) : TRUE).id
              ELSE minted + 1
    IN Merge(Merge(GoatDefaults, [id |-> id, rfidTag |-> tag]), set)

\* an upsert that sets addedAt only when it inserts
UpsertedOnceAdded(body, at) ==
    LET tag == Trim(body.rfidTag)
        set == GoatCast(Drop(body, DOMAIN body \ GoatSetFields))
    IN IF GoatsByTag(tag) # {}
       THEN Merge(CHOOSE g \in GoatsByTag(tag) : TRUE, set)
       ELSE Merge(Merge(GoatDefaults, [id |-> minted + 1, rfidTag |-> tag]),
                  Merge(set, [addedAt |-> at]))

\* Goat.findOneAndUpdate({ rfidTag }, { $set: ... },
\*                       { new: true, upsert: true, setDefaultsOnInsert: true })
\* the document the call leaves in the collection; `at` is the Date.now() of
\* the $set, read when the handler built it
Upserted(body, at) ==
    LET tag == Trim(body.rfidTag)
        set == Merge(GoatCast(Drop(body, DOMAIN body \ GoatSetFields)), [addedAt |-> at])
    IN IF GoatsByTag(tag) # {}
       THEN Merge(CHOOSE g \in GoatsByTag(tag) : TRUE, set)
       ELSE Merge(Merge(GoatDefaults, [id |-> minted + 1, rfidTag |-> tag]), set)

\* /^data:([A-Za-z-+\/]+);base64,(.+)$/ on a photo entry, given in its parts
MediaChars == {"i", "m", "a", "g", "e", "/", "j", "p", "n", "-", "+"}

\* a match that lets every entry through
PhotoMatchesAny(p) == TRUE

PhotoMatches(p) ==
    /\ p.scheme = "data:"
    /\ p.media # <<>>
    /\ \A k \in 1..Len(p.media) : p.media[k] \in MediaChars
    /\ p.marker = ";base64,"
    /\ p.payload # <<>>

\* a file name without the index of the entry
FilenameOfBatch(t, goatId, index) == <<t, goatId, 0>>

\* `${Date.now()}_${goat._id}_img${index}.jpg`
Filename(t, goatId, index) == <<t, goatId, index>>

\* fs.unlinkSync of each name that fs.existsSync finds
Unlinked(names) == {f \in files : f.name \notin names}

\* fs.writeFileSync of the blobs: a file of the same name is overwritten
Written(blobs) == Unlinked({b.name : b \in blobs}) \cup blobs

\* the blob of an Image document, told apart by the document it was written for
BlobOf(img) == [name |-> img.filename, blob |-> img.id]

\* the file that fs.writeFileSync leaves when it throws after it has opened
\* the file (EFBIG, ENOSPC): of that name, with the buffer cut short
CutOf(img) == [name |-> img.filename, blob |-> <<img.id[1], img.id[2], "cut">>]

\* a deleteMany that removes nothing
DeleteManyNone(id) == images

\* a deleteMany whose filter is empty
DeleteManyAll(id) == {}

\* Image.deleteMany({ goatId })
DeleteMany(id) == images \ ImagesOf(id)

\* the readings of Date.now() that the map over photos can take: every entry
\* that matches reads the clock for its file name, after the write of the
\* entry before it has returned, so the readings do not decrease along the list
Stamps(photos) ==
    LET matching == {k \in 1..Len(photos) : PhotoMatches(photos[k])}
    IN { s \in [matching -> now..MaxTime] :
           \A j \in matching : \A k \in matching : j < k => s[j] <= s[k] }

\* the Image documents the map over photos builds, index counted from 0;
\* stamps[k] is the reading of Date.now() of entry k
NewImages(rid, goatId, photos, stamps) ==
    { [id |-> <<rid, k - 1>>, goatId |-> goatId,
       filename |-> Filename(stamps[k], goatId, k - 1),
       imageUrl |-> <<"uploads/", Filename(stamps[k], goatId, k - 1)>>] :
        k \in {j \in 1..Len(photos) : PhotoMatches(photos[j])} }

\* a test that an empty list passes
HasPhotosField(body) == Has(body, "photos")

\* a test that only a list with a well-formed entry passes
HasWellFormedPhotos(body) ==
    Has(body, "photos") /\ \E k \in 1..Len(body.photos) : PhotoMatches(body.photos[k])

\* if (photos && photos.length > 0)
HasPhotos(body) == Has(body, "photos") /\ Len(body.photos) > 0

(***************************************************************************)
(* Request bodies.  A field the body does not carry is absent from the     *)
(* record, as it is undefined after the handler's destructuring.           *)
(***************************************************************************)
RawEmails == { <<"a">>, <<"A", " ">>, <<"b">> }

RawPasswords == { <<"p">>, <<"q">> }

RegisterFull ==
    { [email |-> e, password |-> p, farmName |-> <<"F", " ">>, address |-> <<"X">>] :
        e \in RawEmails, p \in RawPasswords }

RegisterBodies ==
    RegisterFull \cup
    { Drop([email |-> <<"a">>, password |-> <<"p">>, farmName |-> <<"F">>,
            address |-> <<"X">>], {f}) : f \in UserRequired }

\* the bodies of the two above that the frame of the users is checked on
FrameRegisterBodies ==
    { [email |-> <<"a">>, password |-> <<"p">>, farmName |-> <<"F", " ">>, address |-> <<"X">>],
      [email |-> <<"A", " ">>, password |-> <<"q">>, farmName |-> <<"F", " ">>,
       address |-> <<"X">>] }

FrameLoginBodies == { [email |-> <<"A", " ">>, password |-> <<"p">>] }

LoginBodies ==
    { [email |-> e, password |-> p] : e \in RawEmails, p \in RawPasswords } \cup
    { [email |-> <<"a">>], [password |-> <<"p">>] }

RawTags == { <<"T">>, <<"T", " ">>, <<"U">> }

GoatBody1 ==
    [owner |-> 1, name |-> <<"N">>, gender |-> "Male", breed |-> "Boer",
     birthDate |-> 10, weight |-> 10, height |-> 20, healthStatus |-> <<"Healthy">>]

GoatBody2 ==
    [owner |-> 2, name |-> <<"M", " ">>, gender |-> "Female", breed |-> "Alpine",
     birthDate |-> 11, weight |-> 15, height |-> 25, healthStatus |-> <<"Sick">>]

\* bodies that violate the goat schema or cannot be cast
GoatBodiesBad ==
    { Drop(GoatBody1, {f}) : f \in GoatSetFields } \cup
    { [GoatBody1 EXCEPT !.gender = "Other"], [GoatBody1 EXCEPT !.owner = BadId] }

GoodPhoto ==
    [scheme |-> "data:", media |-> <<"i", "/", "j">>, marker |-> ";base64,",
     payload |-> <<"Q">>]

\* a bare base64 payload, without the data: header
BadPhoto == [scheme |-> "", media |-> <<>>, marker |-> "", payload |-> <<"Q">>]

PhotoLists ==
    { <<>>, <<GoodPhoto>>, <<GoodPhoto, GoodPhoto>>, <<BadPhoto, GoodPhoto>>, <<BadPhoto>> }

WithTag(bodies, tags) == { Merge(b, [rfidTag |-> t]) : b \in bodies, t \in tags }

WithPhotos(bodies, lists) == { Merge(b, [photos |-> p]) : b \in bodies, p \in lists }

\* POST /add-goat bodies that exercise the record: no photos
AddGoatRecordBodies ==
    WithTag({GoatBody1}, RawTags) \cup WithTag({GoatBody2}, {<<"T">>}) \cup
    WithTag(GoatBodiesBad, {<<"T">>})

\* POST /add-goat bodies that exercise the images
AddGoatImageBodies ==
    WithTag({GoatBody1}, {<<"T">>}) \cup
    WithPhotos(WithTag({GoatBody1}, {<<"T">>}), PhotoLists) \cup
    WithPhotos(WithTag({GoatBody2}, {<<"U">>}), {<<GoodPhoto>>})

\* POST /add-goat bodies whose image steps meet faults of the file system
\* and of the store
AddGoatFaultBodies ==
    WithPhotos(WithTag({GoatBody1}, {<<"T">>}), {<<GoodPhoto>>, <<GoodPhoto, GoodPhoto>>})

\* POST /add-goat bodies with photos: a goat with two images and another
\* goat with one
AddGoatStampBodies ==
    WithPhotos(WithTag({GoatBody1}, {<<"T">>}), {<<GoodPhoto, GoodPhoto>>}) \cup
    WithPhotos(WithTag({GoatBody2}, {<<"U">>}), {<<GoodPhoto>>})

\* POST /add-goat bodies for the marketplace
AddGoatMarketBodies == WithTag({GoatBody1}, {<<"U">>}) \cup WithTag({GoatBody2}, {<<"V">>})

\* POST /add-goat bodies for the read endpoints: a goat with two images,
\* another goat of the same owner and a goat of another owner
AddGoatReadBodies ==
    WithPhotos(WithTag({GoatBody1}, {<<"T">>}), {<<GoodPhoto, GoodPhoto>>}) \cup
    AddGoatMarketBodies

\* POST /add-goat bodies of two owners for one tag, the first with a photo
AddGoatOwnerBodies ==
    WithPhotos(WithTag({GoatBody1}, {<<"T">>}), {<<GoodPhoto>>}) \cup
    WithTag({GoatBody2}, {<<"T">>})

\* PUT /update-goat bodies that list a goat and take it off the market
MarketBodies == { [price |-> 5, isForSale |-> TRUE], [isForSale |-> FALSE, isSold |-> TRUE] }

UpdateBodies ==
    { [price |-> 5, isForSale |-> TRUE], [isForSale |-> FALSE], [rfidTag |-> <<"T">>],
      [rfidTag |-> <<"U", " ">>], [gender |-> "Other"] }

\* a well-formed ObjectId that no document has or will have
StrayId == MaxRequests + MaxImageRequests + MaxMarketRequests + 1

\* the :id of a URL: a malformed one, a well-formed one of no document, and
\* the ids generated so far, which are those a client can have learnt
UrlIds == {BadId, StrayId} \cup 1..minted

\* the :userId of a URL: a malformed one, one of no goat, and the owners
OwnerUrlIds == {BadId, StrayId, GoatBody1.owner, GoatBody2.owner}

\* likewise for the id of a user
UserUrlIds == {BadId, StrayId} \cup {u.id : u \in users}

(***************************************************************************)
(* Requests                                                                *)
(***************************************************************************)
NoResponse == [kind |-> "none", rid |-> 0, status |-> 0, resumed |-> {}]

\* the bound on the requests ever started, of which every specification
\* allows its own number
CanStart == started < MaxRequests + MaxImageRequests + MaxMarketRequests

CanSuspend == Cardinality(inflight) < MaxInflight

Suspended(kind) == {r \in inflight : r.kind = kind}

\* the add-goat requests suspended at the await that `pc` names
AddGoatAt(pc) == {r \in Suspended("add-goat") : r.pc = pc}

\* a request that starts disturbs the requests in flight
Disturbed == { [r EXCEPT !.alone = FALSE] : r \in inflight }

\* the answer of a request in its first step
Answer(kind, rid, req, status, payload) ==
    [kind |-> kind, rid |-> rid, req |-> req, status |-> status, payload |-> payload,
     alone |-> inflight = {}, resumed |-> last.resumed]

\* the answer of a suspended request, which ran alone or not; `resumed` keeps
\* the responses that requests have sent after an await, this one included
AnswerOf(r, req, status, payload) ==
    [kind |-> r.kind, rid |-> r.rid, req |-> req, status |-> status,
     payload |-> payload, alone |-> r.alone,
     resumed |-> last.resumed \cup {[rid |-> r.rid, kind |-> r.kind, status |-> status]}]

Error(msg) == [error |-> msg]

(***************************************************************************)
(* A. POST /register                                                       *)
(***************************************************************************)
\* await User.findOne({ email }): the first await of the handler
RegisterFind(body) ==
    /\ CanStart
    /\ started' = started + 1
    /\ UNCHANGED <<users, goats, images, files, minted, now>>
    /\ IF UserFindOne(body) # {}
       THEN /\ last' = Answer("register", started + 1, body, 400,
                              Error("Email already exists."))
            /\ inflight' = Disturbed
       ELSE /\ CanSuspend
            /\ inflight' = Disturbed \cup
                 { [kind |-> "register", rid |-> started + 1, pc |-> "salt",
                    alone |-> inflight = {}, body |-> body] }
            /\ UNCHANGED last

\* await bcrypt.genSalt(10)
RegisterSalt(r) ==
    /\ r \in inflight
    /\ r.kind = "register"
    /\ r.pc = "salt"
    /\ inflight' = (inflight \ {r}) \cup {[r EXCEPT !.pc = "hash"]}
    /\ UNCHANGED <<users, goats, images, files, minted, now, started, last>>

\* new User({ email, farmName, address, password: hashedPassword }): the
\* setters run and the default of createdAt is taken when the document is built
NewUser(body, hashedPassword) ==
    Merge(UserCast(Merge(Drop(body, DOMAIN body \ UserRequired),
                         [password |-> hashedPassword])),
          [createdAt |-> now])

\* await bcrypt.hash(password, salt), which rejects when the password is
\* undefined; then new User(...) up to the await of save()
RegisterHash(r) ==
    /\ r \in inflight
    /\ r.kind = "register"
    /\ r.pc = "hash"
    /\ UNCHANGED <<users, goats, images, files, minted, now, started>>
    /\ IF ~Has(r.body, "password")
       THEN /\ inflight' = inflight \ {r}
            /\ last' = AnswerOf(r, r.body, 500, Error("Server error."))
       ELSE /\ inflight' = (inflight \ {r}) \cup
                 { Merge(r, [pc |-> "save",
                             doc |-> NewUser(r.body, BcryptHash(r.body.password))]) }
            /\ UNCHANGED last

\* userResponse = newUser.toObject(); delete userResponse.password
RegisterResponse(user) == Drop(user, {"password"})

\* a save that replaces the stored user of the same email
RegisterSaveUpsert(r) ==
    /\ r \in inflight
    /\ r.kind = "register"
    /\ r.pc = "save"
    /\ inflight' = inflight \ {r}
    /\ UNCHANGED <<goats, images, files, minted, now, started>>
    /\ LET user == Merge(r.doc, [id |-> NextId(users)])
       IN /\ users' = {u \in users : u.email # user.email} \cup {user}
          /\ last' = AnswerOf(r, r.body, 201, RegisterResponse(user))

\* await newUser.save(), then the response
RegisterSave(r) ==
    /\ r \in inflight
    /\ r.kind = "register"
    /\ r.pc = "save"
    /\ inflight' = inflight \ {r}
    /\ UNCHANGED <<goats, images, files, minted, now, started>>
    /\ IF UserValid(r.doc) /\ ~EmailTaken(r.doc.email)
       THEN LET user == Merge(r.doc, [id |-> NextId(users)])
            IN /\ users' = users \cup {user}
               /\ last' = AnswerOf(r, r.body, 201, RegisterResponse(user))
       ELSE \* ValidationError or E11000 duplicate key, caught by the handler
            /\ UNCHANGED users
            /\ last' = AnswerOf(r, r.body, 500, Error("Server error."))

(***************************************************************************)
(* B. POST /login                                                          *)
(***************************************************************************)
LoginResponse(user) == [status |-> "ok", user |-> Drop(user, {"password"})]

\* await User.findOne({ email })
LoginFind(body) ==
    /\ CanStart
    /\ started' = started + 1
    /\ UNCHANGED <<users, goats, images, files, minted, now>>
    /\ LET found == UserFindOne(body)
       IN IF found = {}
          THEN /\ last' = Answer("login", started + 1, body, 400, Error("User not found"))
               /\ inflight' = Disturbed
          ELSE /\ CanSuspend
               /\ inflight' = Disturbed \cup
                    { [kind |-> "login", rid |-> started + 1, pc |-> "compare",
                       alone |-> inflight = {}, body |-> body,
                       user |-> CHOOSE u \in found : TRUE] }
               /\ UNCHANGED last

\* await bcrypt.compare(password, user.password), which rejects when the
\* password is undefined; then the response
LoginCompare(r) ==
    /\ r \in inflight
    /\ r.kind = "login"
    /\ r.pc = "compare"
    /\ inflight' = inflight \ {r}
    /\ UNCHANGED <<users, goats, images, files, minted, now, started>>
    /\ IF ~Has(r.body, "password")
       THEN last' = AnswerOf(r, r.body, 500, Error("Illegal arguments"))
       ELSE IF ~BcryptCompare(r.body.password, r.user.password)
       THEN last' = AnswerOf(r, r.body, 400, Error("Invalid credentials"))
       ELSE last' = AnswerOf(r, r.body, 200, LoginResponse(r.user))

(***************************************************************************)
(* C. POST /add-goat                                                       *)
(***************************************************************************)
\* the request as the answer records it: its body, the goat and the
\* images of the goat that the upsert found, and the faults the request met:
\* the old files whose unlink threw, the store call of the cleanup that was
\* rejected, and the entries whose write threw
AddGoatRequest(r) ==
    [body |-> r.body, prev |-> r.prev, before |-> r.before, stuck |-> r.stuck,
     failed |-> r.failed, broken |-> r.broken, cut |-> r.cut, stamps |-> r.stamps]

AddGoatResponse(goat) ==
    [status |-> "ok", message |-> "Goat record updated successfully!", goat |-> goat]

\* the handler up to its first await: the $set is built, with
\* addedAt: Date.now(), and findOneAndUpdate is issued
AddGoatReceive(body) ==
    /\ CanStart
    /\ CanSuspend
    /\ started' = started + 1
    /\ inflight' = Disturbed \cup
         { [kind |-> "add-goat", rid |-> started + 1, pc |-> "upsert",
            alone |-> inflight = {}, body |-> body, at |-> now] }
    /\ UNCHANGED <<users, goats, images, files, minted, now, last>>

\* await Goat.findOneAndUpdate(...); without photos the response follows
AddGoatUpsert(r) ==
    /\ r \in inflight
    /\ r.kind = "add-goat"
    /\ r.pc = "upsert"
    /\ UNCHANGED <<users, images, files, now, started>>
    /\ IF GoatCastFails(r.body)
       THEN /\ last' = AnswerOf(r, [body |-> r.body,
                                    prev |-> GoatsByTag(Trim(r.body.rfidTag)),
                                    before |-> {}, stuck |-> {}, failed |-> "none",
                                    broken |-> {}, cut |-> {}, stamps |-> <<>>],
                                500, Error("CastError"))
            /\ inflight' = inflight \ {r}
            /\ UNCHANGED <<goats, minted>>
       ELSE LET goat == Upserted(r.body, r.at)
                q == Merge(r, [pc |-> "find", goat |-> goat,
                               prev |-> GoatsByTag(goat.rfidTag),
                               before |-> ImagesOf(goat.id), pending |-> {},
                               stuck |-> {}, failed |-> "none", broken |-> {},
                               cut |-> {}, stamps |-> <<>>])
            IN /\ goats' = (goats \ GoatsById(goat.id)) \cup {goat}
               /\ minted' = IF GoatsById(goat.id) = {} THEN minted + 1 ELSE minted
               /\ IF HasPhotos(r.body)
                  THEN /\ inflight' = (inflight \ {r}) \cup {q}
                       /\ UNCHANGED last
                  ELSE /\ inflight' = inflight \ {r}
                       /\ last' = AnswerOf(r, AddGoatRequest(q), 200, AddGoatResponse(goat))

\* photos.map(...) up to await Promise.all: every file is written and every
\* save is issued before the handler awaits again; `broken` are the entries
\* on which fs.writeFileSync throws: their promise is rejected, Promise.all
\* rejects with it and the catch answers 500 while the saves of the other
\* entries are on their way.  `cut` are those of them on which it throws
\* after it has opened the file, which is left cut short under the name of
\* the entry, in the place of any file of that name; on the others it
\* throws at the open and leaves the directory alone.  `stamps` are the
\* readings of Date.now() of the entries, the last of which is the time at
\* which the map ends.  q is the request r as the cleanup left it
AddGoatMap(r, q, broken, cut, stamps) ==
    /\ broken \subseteq {k \in 1..Len(r.body.photos) : PhotoMatches(r.body.photos[k])}
    /\ cut \subseteq broken
    /\ stamps \in Stamps(r.body.photos)
    /\ LET all == NewImages(r.rid, r.goat.id, r.body.photos, stamps)
           new == {i \in all : i.id[2] + 1 \notin broken}
           p == [q EXCEPT !.broken = broken, !.cut = cut, !.stamps = stamps,
                          !.pending = new]
       IN /\ now' = IF DOMAIN stamps = {} THEN now
                     ELSE CHOOSE t \in {stamps[k] : k \in DOMAIN stamps} :
                             \A k \in DOMAIN stamps : stamps[k] <= t
          /\ files' = Written({BlobOf(i) : i \in new} \cup
                              {CutOf(i) : i \in {x \in all : x.id[2] + 1 \in cut}})
          /\ IF broken # {}
             THEN /\ inflight' = (inflight \ {r}) \cup
                                 (IF new = {} THEN {} ELSE {[p EXCEPT !.pc = "detached"]})
                  /\ last' = AnswerOf(r, AddGoatRequest(p), 500, Error("write failed"))
             ELSE IF new = {}
             THEN /\ inflight' = inflight \ {r}
                  /\ last' = AnswerOf(r, AddGoatRequest(p), 200, AddGoatResponse(r.goat))
             ELSE /\ inflight' = (inflight \ {r}) \cup {[p EXCEPT !.pc = "save"]}
                  /\ UNCHANGED last

\* an unlink loop that the first throw ends
AddGoatFindOldAbort(r, stuck, broken, cut, stamps, found) ==
    /\ r \in inflight
    /\ r.kind = "add-goat"
    /\ r.pc = "find"
    /\ found
    /\ broken = {}
    /\ cut = {}
    /\ stamps = <<>>
    /\ LET old == {i.filename : i \in ImagesOf(r.goat.id)}
       IN /\ stuck \subseteq old \cap {f.name : f \in files}
          /\ files' = IF stuck = {} THEN Unlinked(old) ELSE files
    /\ inflight' = (inflight \ {r}) \cup {[r EXCEPT !.pc = "delete", !.stuck = stuck]}
    /\ UNCHANGED <<users, goats, images, minted, now, started, last>>

\* await Image.find({ goatId }), then the loop that unlinks the old files;
\* `stuck` are the files on which fs.unlinkSync throws, which the loop logs.
\* When find is rejected (`found` is FALSE) the catch of the cleanup logs it,
\* the loop and deleteMany are skipped and the handler goes on to the map
AddGoatFindOld(r, stuck, broken, cut, stamps, found) ==
    /\ r \in inflight
    /\ r.kind = "add-goat"
    /\ r.pc = "find"
    /\ UNCHANGED <<users, goats, images, minted, started>>
    /\ IF found
       THEN /\ broken = {}
            /\ cut = {}
            /\ stamps = <<>>
            /\ UNCHANGED now
            /\ LET old == {i.filename : i \in ImagesOf(r.goat.id)}
               IN /\ stuck \subseteq old \cap {f.name : f \in files}
                  /\ files' = Unlinked(old \ stuck)
            /\ inflight' = (inflight \ {r}) \cup
                              {[r EXCEPT !.pc = "delete", !.stuck = stuck]}
            /\ UNCHANGED last
       ELSE /\ stuck = {}
            /\ AddGoatMap(r, [r EXCEPT !.failed = "find"], broken, cut, stamps)

\* await Image.deleteMany({ goatId }), then the map over photos.  When
\* deleteMany is rejected (`deleted` is FALSE) the catch of the cleanup logs
\* it and the handler goes on with the old records in place
AddGoatDeleteOld(r, broken, cut, stamps, deleted) ==
    /\ r \in inflight
    /\ r.kind = "add-goat"
    /\ r.pc = "delete"
    /\ images' = IF deleted THEN DeleteMany(r.goat.id) ELSE images
    /\ AddGoatMap(r, [r EXCEPT !.failed = IF deleted THEN "none" ELSE "deleteMany"],
                  broken, cut, stamps)
    /\ UNCHANGED <<users, goats, minted, started>>

\* a save whose rejection rolls the batch back: the records of the batch
\* that were saved are removed and the saves on their way are dropped
AddGoatSaveImageRollback(r, img, ok) ==
    /\ r \in inflight
    /\ r.kind = "add-goat"
    /\ r.pc \in {"save", "detached"}
    /\ img \in r.pending
    /\ LET rest == [r EXCEPT !.pending = @ \ {img}]
       IN IF ok
          THEN /\ images' = images \cup {img}
               /\ IF rest.pending = {}
                  THEN /\ inflight' = inflight \ {r}
                       /\ last' = AnswerOf(r, AddGoatRequest(r), 200, AddGoatResponse(r.goat))
                  ELSE /\ inflight' = (inflight \ {r}) \cup {rest}
                       /\ UNCHANGED last
          ELSE /\ images' = {i \in images : i.id[1] # r.rid}
               /\ inflight' = inflight \ {r}
               /\ last' = AnswerOf(r, AddGoatRequest(r), 500, Error("save failed"))
    /\ UNCHANGED <<users, goats, files, minted, now, started>>

\* one newImage.save() settles: it reaches the store, or it is rejected.
\* Promise.all resolves with the last save and rejects with the first
\* rejection; after the response the remaining saves settle on their own
AddGoatSaveImage(r, img, ok) ==
    /\ r \in inflight
    /\ r.kind = "add-goat"
    /\ r.pc \in {"save", "detached"}
    /\ img \in r.pending
    /\ images' = IF ok THEN images \cup {img} ELSE images
    /\ LET rest == [r EXCEPT !.pending = @ \ {img}]
       IN IF r.pc = "detached"
          THEN /\ inflight' = (inflight \ {r}) \cup (IF rest.pending = {} THEN {} ELSE {rest})
               /\ UNCHANGED last
          ELSE IF ~ok
          THEN /\ inflight' = (inflight \ {r}) \cup
                              (IF rest.pending = {} THEN {}
                               ELSE {[rest EXCEPT !.pc = "detached"]})
               /\ last' = AnswerOf(r, AddGoatRequest(r), 500, Error("save failed"))
          ELSE IF rest.pending = {}
          THEN /\ inflight' = inflight \ {r}
               /\ last' = AnswerOf(r, AddGoatRequest(r), 200, AddGoatResponse(r.goat))
          ELSE /\ inflight' = (inflight \ {r}) \cup {rest}
               /\ UNCHANGED last
    /\ UNCHANGED <<users, goats, files, minted, now, started>>

(***************************************************************************)
(* E. PUT /update-goat/:id                                                 *)
(***************************************************************************)
\* the goats collection without its unique index
TagTakenNever(tag, id) == FALSE

\* the unique index on rfidTag, for a document that takes the tag
TagTaken(tag, id) == \E g \in goats : g.rfidTag = tag /\ g.id # id

UpdateGoat(id, body) ==
    /\ CanStart
    /\ started' = started + 1
    /\ inflight' = Disturbed
    /\ UNCHANGED <<users, images, files, minted, now>>
    /\ LET req == [id |-> id, body |-> body, found |-> GoatsById(id)]
           upd == GoatCast(body)
       IN IF ~ObjectIdIsValid(id) \/ GoatCastFails(body)
          THEN /\ last' = Answer("update-goat", started + 1, req, 500, Error("CastError"))
               /\ UNCHANGED goats
          ELSE IF GoatsById(id) = {}
          THEN /\ last' = Answer("update-goat", started + 1, req, 404,
                                 Error("Goat not found"))
               /\ UNCHANGED goats
          ELSE IF Has(upd, "rfidTag") /\ TagTaken(upd.rfidTag, id)
          THEN /\ last' = Answer("update-goat", started + 1, req, 500,
                                 Error("E11000 duplicate key"))
               /\ UNCHANGED goats
          ELSE LET goat == Merge(CHOOSE g \in GoatsById(id) : TRUE, upd)
               IN /\ goats' = (goats \ GoatsById(id)) \cup {goat}
                  /\ last' = Answer("update-goat", started + 1, req, 200, goat)

(***************************************************************************)
(* G. DELETE /delete-goat/:id                                              *)
(***************************************************************************)
\* await Goat.findByIdAndDelete(id)
DeleteGoatFind(id) ==
    /\ CanStart
    /\ started' = started + 1
    /\ UNCHANGED <<users, images, files, minted, now>>
    /\ IF ~ObjectIdIsValid(id)
       THEN /\ last' = Answer("delete-goat", started + 1, [id |-> id], 500,
                              Error("CastError"))
            /\ inflight' = Disturbed
            /\ UNCHANGED goats
       ELSE /\ CanSuspend
            /\ goats' = goats \ GoatsById(id)
            /\ inflight' = Disturbed \cup
                 { [kind |-> "delete-goat", rid |-> started + 1, pc |-> "images",
                    alone |-> inflight = {}, id |-> id, goat |-> GoatsById(id)] }
            /\ UNCHANGED last

\* await Image.deleteMany({ goatId: id }), then the response
DeleteGoatImages(r) ==
    /\ r \in inflight
    /\ r.kind = "delete-goat"
    /\ r.pc = "images"
    /\ images' = DeleteMany(r.id)
    /\ inflight' = inflight \ {r}
    /\ last' = AnswerOf(r, [id |-> r.id, goat |-> r.goat, images |-> ImagesOf(r.id)], 200,
                        [message |-> "Goat deleted successfully"])
    /\ UNCHANGED <<users, goats, files, minted, now, started>>

(***************************************************************************)
(* GET /get-goat/:id                                                       *)
(***************************************************************************)
\* the orders in which the store may return the images of a goat: the
\* $lookup has no sort, so the order is that of the store, which follows the
\* order in which the saves landed and which MongoDB does not promise
RECURSIVE InOrder(_)
InOrder(imgs) ==
    IF imgs = {} THEN {<<>>}
    ELSE UNION { { <<i>> \o rest : rest \in InOrder(imgs \ {i}) } : i \in imgs }

\* the fields of the $project stage that the document has
GetGoatProjected ==
    {"id", "name", "breed", "price", "gender", "weight", "height", "birthDate",
     "healthStatus", "rfidTag", "isForSale"}

OwnerOf(goat) == IF Has(goat, "owner") THEN {u \in users : u.id = goat.owner} ELSE {}

OwnerDetails(goat) ==
    IF OwnerOf(goat) = {} THEN [f \in {} |-> 0]
    ELSE Drop(CHOOSE u \in OwnerOf(goat) : TRUE,
              {"id", "password", "createdAt"})

\* the response, for the order `urls` in which the $lookup returned the images
GetGoatResponse(id, urls) ==
    IF ~ObjectIdIsValid(id) THEN [status |-> 404, payload |-> Error("Invalid Goat ID")]
    ELSE IF GoatsById(id) = {} THEN [status |-> 404, payload |-> Error("Goat not found")]
    ELSE LET goat == CHOOSE g \in GoatsById(id) : TRUE
         IN [status |-> 200,
             payload |-> Merge(Drop(goat, DOMAIN goat \ GetGoatProjected),
                               [images |-> [k \in 1..Len(urls) |-> urls[k].imageUrl],
                                ownerDetails |-> OwnerDetails(goat)])]

GetGoat(id) ==
    /\ CanStart
    /\ started' = started + 1
    /\ inflight' = Disturbed
    /\ \E urls \in InOrder(ImagesOf(id)) :
          last' = Answer("get-goat", started + 1, [id |-> id],
                         GetGoatResponse(id, urls).status, GetGoatResponse(id, urls).payload)
    /\ UNCHANGED <<users, goats, images, files, minted, now>>

(***************************************************************************)
(* D. GET /get-goats/:userId, F. GET /api/goats, GET /goats                *)
(***************************************************************************)
\* the value $sort compares: a missing field sorts as null, below every date
SortKey(doc, path) == IF Has(doc, path) THEN doc[path] ELSE -1

\* { $sort: { <path>: -1 } }: the orders the stage may produce, documents of
\* equal key in any order
RECURSIVE SortedDescending(_, _)
SortedDescending(docs, path) ==
    IF docs = {} THEN {<<>>}
    ELSE UNION { { <<d>> \o rest : rest \in SortedDescending(docs \ {d}, path) } :
                 d \in {x \in docs : \A y \in docs : SortKey(x, path) >= SortKey(y, path)} }

\* { $arrayElemAt: ["$goatImages.imageUrl", 0] }: no field when there is no
\* image; otherwise the field, for every order the $lookup may return
FirstImageUrl(goat, field) ==
    { IF imgs = <<>> THEN [f \in {} |-> 0] ELSE [f \in {field} |-> imgs[1].imageUrl] :
        imgs \in InOrder(ImagesOf(goat.id)) }

\* the $addFields of the first image over a sorted list: the lists it may give
RECURSIVE WithFirstImage(_, _)
WithFirstImage(list, field) ==
    IF list = <<>> THEN {<<>>}
    ELSE { <<Merge(Head(list), u)>> \o rest :
             u \in FirstImageUrl(Head(list), field),
             rest \in WithFirstImage(Tail(list), field) }

\* { $match: { owner: new mongoose.Types.ObjectId(userId) } }
MatchesOwner(goat, userId) == Has(goat, "owner") /\ goat.owner = userId

GetGoats(userId) ==
    /\ CanStart
    /\ started' = started + 1
    /\ inflight' = Disturbed
    /\ UNCHANGED <<users, goats, images, files, minted, now>>
    /\ IF ~ObjectIdIsValid(userId)
       THEN \* new mongoose.Types.ObjectId(userId) throws
            last' = Answer("get-goats", started + 1, [userId |-> userId], 500,
                           Error("BSONError"))
       ELSE \E list \in SortedDescending({g \in goats : MatchesOwner(g, userId)}, "addedAt") :
               \E items \in WithFirstImage(list, "mainPhotoPath") :
                  last' = Answer("get-goats", started + 1, [userId |-> userId], 200,
                                 [goats |-> items])

\* a $match that lets every goat through
IsForSaleAny(goat) == TRUE

\* { $match: { isForSale: true } }
IsForSale(goat) == Has(goat, "isForSale") /\ goat.isForSale = TRUE

\* the $addFields of the feed after the first image: address and farm name
\* of the owner
FeedItem(goat) ==
    LET owner == IF OwnerOf(goat) = {} THEN [f \in {} |-> 0]
                 ELSE LET u == CHOOSE u \in OwnerOf(goat) : TRUE
                      IN [ownerAddress |-> u.address, farmName |-> u.farmName]
    IN Merge(goat, owner)

\* F. GET /api/goats: the feed sorted on listedAt, newest first
ApiGoats ==
    /\ CanStart
    /\ started' = started + 1
    /\ inflight' = Disturbed
    /\ UNCHANGED <<users, goats, images, files, minted, now>>
    /\ \E feed \in SortedDescending({g \in goats : IsForSale(g)}, "listedAt") :
          \E items \in WithFirstImage(feed, "mainPhoto") :
             last' = Answer("api-goats", started + 1, [none |-> TRUE], 200,
                            [goats |-> [k \in 1..Len(items) |-> FeedItem(items[k])]])

\* GET /goats: the same pipeline, the owner joined on the stored reference
Goats ==
    /\ CanStart
    /\ started' = started + 1
    /\ inflight' = Disturbed
    /\ UNCHANGED <<users, goats, images, files, minted, now>>
    /\ \E feed \in SortedDescending({g \in goats : IsForSale(g)}, "listedAt") :
          \E items \in WithFirstImage(feed, "mainPhoto") :
             last' = Answer("goats", started + 1, [none |-> TRUE], 200,
                            [goats |-> [k \in 1..Len(items) |-> FeedItem(items[k])]])

(***************************************************************************)
(* GET /api/farms, H. GET /api/farms/:id                                   *)
(***************************************************************************)
\* .select("farmName address email _id profileImage")
FarmPublic(user) == Drop(user, DOMAIN user \ {"farmName", "address", "email", "id"})

ApiFarms ==
    /\ CanStart
    /\ started' = started + 1
    /\ inflight' = Disturbed
    /\ last' = Answer("farms", started + 1, [none |-> TRUE], 200,
                      [farms |-> {FarmPublic(u) : u \in users}])
    /\ UNCHANGED <<users, goats, images, files, minted, now>>

\* .select("-password")
ApiFarm(id) ==
    /\ CanStart
    /\ started' = started + 1
    /\ inflight' = Disturbed
    /\ UNCHANGED <<users, goats, images, files, minted, now>>
    /\ IF ~ObjectIdIsValid(id)
       THEN last' = Answer("farm", started + 1, [id |-> id], 404, Error("Invalid Farm ID"))
       ELSE IF {u \in users : u.id = id} = {}
       THEN last' = Answer("farm", started + 1, [id |-> id], 404, Error("Farm not found"))
       ELSE last' = Answer("farm", started + 1, [id |-> id], 200,
                           Drop(CHOOSE u \in users : u.id = id, {"password"}))

(***************************************************************************)
(* The first version of the server (src/unnamed/part_000): POST /register, *)
(* POST /add-goat and POST /upload build a document from the body, save it *)
(* and answer with it                                                      *)
(***************************************************************************)
\* new User(req.body), up to the await of save(): the default of createdAt
\* is taken when the document is built
RegisterLegacy(body) ==
    /\ CanStart
    /\ CanSuspend
    /\ started' = started + 1
    /\ inflight' = Disturbed \cup
         { [kind |-> "register", rid |-> started + 1, pc |-> "save-legacy",
            alone |-> inflight = {}, body |-> body,
            doc |-> Merge(UserCast(Drop(body, DOMAIN body \ UserRequired)),
                          [createdAt |-> now])] }
    /\ UNCHANGED <<users, goats, images, files, minted, now, last>>

\* await newUser.save(); res.status(201).json(newUser)
RegisterLegacySave(r) ==
    /\ r \in inflight
    /\ r.kind = "register"
    /\ r.pc = "save-legacy"
    /\ inflight' = inflight \ {r}
    /\ UNCHANGED <<goats, images, files, minted, now, started>>
    /\ IF UserValid(r.doc) /\ ~EmailTaken(r.doc.email)
       THEN LET user == Merge(r.doc, [id |-> NextId(users)])
            IN /\ users' = users \cup {user}
               /\ last' = AnswerOf(r, r.body, 201, user)
       ELSE /\ UNCHANGED users
            /\ last' = AnswerOf(r, r.body, 400,
                                Error("ValidationError or E11000 duplicate key"))

\* the paths and the defaults of the Goat schema of the first version
GoatPathsLegacy == GoatSetFields \cup {"rfidTag", "addedAt"}

\* new Goat(req.body), up to the await of save()
AddGoatLegacy(body) ==
    /\ CanStart
    /\ CanSuspend
    /\ started' = started + 1
    /\ inflight' = Disturbed \cup
         { [kind |-> "add-goat", rid |-> started + 1, pc |-> "save-legacy",
            alone |-> inflight = {}, body |-> body,
            doc |-> Merge([healthStatus |-> <<"Healthy">>, addedAt |-> now],
                          GoatCast(Drop(body, DOMAIN body \ GoatPathsLegacy)))] }
    /\ UNCHANGED <<users, goats, images, files, minted, now, last>>

\* await newGoat.save(), which validates the document and meets the unique
\* index on rfidTag; res.status(201).json(newGoat)
AddGoatLegacySave(r) ==
    /\ r \in inflight
    /\ r.kind = "add-goat"
    /\ r.pc = "save-legacy"
    /\ inflight' = inflight \ {r}
    /\ UNCHANGED <<users, images, files, now, started>>
    /\ IF /\ ~GoatCastFails(r.body)
          /\ GoatSchemaValid(r.doc)
          /\ GoatsByTag(r.doc.rfidTag) = {}
       THEN LET goat == Merge(r.doc, [id |-> minted + 1])
            IN /\ goats' = goats \cup {goat}
               /\ minted' = minted + 1
               /\ last' = AnswerOf(r, r.body, 201, goat)
       ELSE /\ UNCHANGED <<goats, minted>>
            /\ last' = AnswerOf(r, r.body, 400,
                                Error("ValidationError or E11000 duplicate key"))

\* the goatId of an Image that is linked to no goat: null
NoGoat == -1

\* a byte of a file that no write has filled: a write behind the end of the
\* file leaves a hole
Hole == <<0, 0>>

\* the bytes of the file of that name in the uploads directory
ContentOf(name) == (CHOOSE f \in files : f.name = name).blob

\* the bytes after the stream of request `rid` has written n bytes at its
\* position pos: the stream writes where its own descriptor stands, over
\* what is there; a byte is told apart by the request and its place in the body
WrittenAt(content, rid, pos, n) ==
    LET len == IF Len(content) > pos + n THEN Len(content) ELSE pos + n
    IN [i \in 1..len |-> IF i > pos /\ i <= pos + n THEN <<rid, i>>
                         ELSE IF i <= Len(content) THEN content[i] ELSE Hole]

\* upload.single("imageFile"): multer names the file Date.now() + "_" +
\* originalname when the part begins and opens a write stream on it; a
\* request without a file passes on to the handler, where req.file.filename
\* throws
UploadLegacy(upload) ==
    /\ CanStart
    /\ started' = started + 1
    /\ UNCHANGED <<users, goats, images, files, minted, now>>
    /\ IF ~Has(upload, "originalname")
       THEN /\ inflight' = Disturbed
            /\ last' = Answer("upload", started + 1, upload, 500,
                              Error("Error uploading image"))
       ELSE /\ CanSuspend
            /\ inflight' = Disturbed \cup
                 { [kind |-> "upload", rid |-> started + 1, pc |-> "open",
                    alone |-> inflight = {}, body |-> upload,
                    filename |-> <<now, upload.originalname>>,
                    sent |-> 0, pos |-> 0] }
            /\ UNCHANGED last

\* fs.createWriteStream(path) opens the file with the flag "w": the file is
\* created, or the file of that name is cut to no bytes
UploadLegacyOpen(r) ==
    /\ r \in inflight
    /\ r.kind = "upload"
    /\ r.pc = "open"
    /\ files' = Written({[name |-> r.filename, blob |-> <<>>]})
    /\ inflight' = (inflight \ {r}) \cup {[r EXCEPT !.pc = "write"]}
    /\ UNCHANGED <<users, goats, images, minted, now, started, last>>

\* file.stream.pipe(outStream): the stream writes the next chunk of the body
\* at its position in the file
UploadLegacyWrite(r) ==
    /\ r \in inflight
    /\ r.kind = "upload"
    /\ r.pc = "write"
    /\ r.sent < Len(r.body.chunks)
    /\ LET n == r.body.chunks[r.sent + 1]
       IN /\ files' = Written({[name |-> r.filename,
                                blob |-> WrittenAt(ContentOf(r.filename), r.rid, r.pos, n)]})
          /\ inflight' = (inflight \ {r}) \cup
                            {[r EXCEPT !.sent = r.sent + 1, !.pos = r.pos + n]}
    /\ UNCHANGED <<users, goats, images, minted, now, started, last>>

\* the stream has finished, with every chunk written; the handler builds the
\* Image and awaits save()
UploadLegacyStored(r) ==
    /\ r \in inflight
    /\ r.kind = "upload"
    /\ r.pc = "write"
    /\ r.sent = Len(r.body.chunks)
    /\ LET img == [id |-> <<r.rid, 0>>,
                   goatId |-> IF Has(r.body, "goatId") THEN r.body.goatId ELSE NoGoat,
                   filename |-> r.filename,
                   imageUrl |-> <<"http://localhost:5000/uploads/", r.filename>>]
       IN inflight' = (inflight \ {r}) \cup {Merge(r, [pc |-> "save-legacy", doc |-> img])}
    /\ UNCHANGED <<users, goats, images, files, minted, now, started, last>>

\* await newImage.save(): a goatId that is no ObjectId fails the validation
UploadLegacySave(r) ==
    /\ r \in inflight
    /\ r.kind = "upload"
    /\ r.pc = "save-legacy"
    /\ inflight' = inflight \ {r}
    /\ UNCHANGED <<users, goats, files, minted, now, started>>
    /\ IF r.doc.goatId = BadId
       THEN /\ UNCHANGED images
            /\ last' = AnswerOf(r, r.body, 500, Error("Error uploading image"))
       ELSE /\ images' = images \cup {r.doc}
            /\ last' = AnswerOf(r, r.body, 201, [message |-> "Image Uploaded and Saved to DB"])

\* the clock advances
Tick ==
    /\ now < MaxTime
    /\ now' = now + 1
    /\ UNCHANGED <<users, goats, images, files, minted, started, inflight, last>>

Init ==
    /\ users = {}
    /\ goats = {}
    /\ images = {}
    /\ files = {}
    /\ minted = 0
    /\ now = 0
    /\ started = 0
    /\ inflight = {}
    /\ last = NoResponse

\* the steps of the user handlers after their first await
NextUserSteps ==
    \/ \E r \in inflight : RegisterSalt(r)
    \/ \E r \in inflight : RegisterHash(r)
    \/ \E r \in inflight : RegisterSave(r)
    \/ \E r \in inflight : LoginCompare(r)

\* the handlers over the users collection; a request overlaps a suspended
\* one only among the first MaxImageRequests
NextUsers ==
    \/ /\ started < (IF inflight = {} THEN MaxRequests ELSE MaxImageRequests)
       /\ \/ \E body \in RegisterBodies : RegisterFind(body)
          \/ \E body \in LoginBodies : LoginFind(body)
          \/ ApiFarms
          \/ \E id \in UserUrlIds : ApiFarm(id)
    \/ NextUserSteps

\* the steps of the goat handlers after their first await; the clock
\* advances between the entries of a batch while no other request is in
\* flight
NextGoatSteps ==
    \/ \E r \in inflight : AddGoatUpsert(r)
    \/ \E r \in inflight : AddGoatFindOld(r, {}, {}, {}, <<>>, TRUE)
    \/ \E r \in AddGoatAt("delete") :
          \E stamps \in Stamps(r.body.photos) :
             /\ inflight = {r} \/ \A k \in DOMAIN stamps : stamps[k] = now
             /\ AddGoatDeleteOld(r, {}, {}, stamps, TRUE)
    \/ \E r \in Suspended("add-goat") :
          r.pc \in {"save", "detached"}
          /\ \E img \in r.pending : AddGoatSaveImage(r, img, TRUE)
    \/ \E r \in inflight : DeleteGoatImages(r)

\* the goat handlers, on bodies that exercise the record; a request overlaps
\* a suspended one, and the clock advances, only among the first
\* MaxImageRequests
NextRecords ==
    \/ /\ started < (IF inflight = {} THEN MaxRequests ELSE MaxImageRequests)
       /\ \/ \E body \in AddGoatRecordBodies : AddGoatReceive(body)
          \/ \E id \in UrlIds : \E body \in UpdateBodies : UpdateGoat(id, body)
          \/ \E id \in UrlIds : DeleteGoatFind(id)
          \/ \E id \in UrlIds : GetGoat(id)
    \/ \E r \in inflight : AddGoatUpsert(r)
    \/ \E r \in inflight : DeleteGoatImages(r)
    \/ started < MaxImageRequests /\ Tick

\* the goat handlers, on bodies that exercise the images; the clock advances
\* between requests
NextImages ==
    \/ /\ started < MaxImageRequests
       /\ \/ \E body \in AddGoatImageBodies : AddGoatReceive(body)
          \/ \E id \in UrlIds \ {BadId} : DeleteGoatFind(id)
    \/ NextGoatSteps
    \/ inflight = {} /\ Tick

\* the goat handlers together with the endpoints that read the goats; a
\* request overlaps a suspended one, and the clock advances, only among the
\* first MaxImageRequests
NextReads ==
    \/ /\ started < (IF inflight = {} THEN MaxRequests ELSE MaxImageRequests)
       /\ \/ \E body \in AddGoatReadBodies : AddGoatReceive(body)
          \/ \E id \in 1..minted : DeleteGoatFind(id)
          \/ \E id \in UrlIds : GetGoat(id)
          \/ \E userId \in OwnerUrlIds : GetGoats(userId)
    \/ NextGoatSteps
    \/ started < MaxImageRequests /\ Tick

\* the handlers that put goats on the market, and the feed; a request
\* overlaps a suspended one only among the first MaxImageRequests
NextMarket ==
    \/ /\ started < (IF inflight = {} THEN MaxMarketRequests ELSE MaxImageRequests)
       /\ \/ \E body \in AddGoatMarketBodies : AddGoatReceive(body)
          \/ \E id \in 1..minted : \E body \in MarketBodies : UpdateGoat(id, body)
          \/ \E id \in 1..minted : DeleteGoatFind(id)
          \/ ApiGoats
          \/ Goats
    \/ \E r \in inflight : AddGoatUpsert(r)
    \/ \E r \in inflight : DeleteGoatImages(r)
    \/ Tick

\* POST /add-goat where unlinkSync, writeFileSync and the calls of the
\* store, find, deleteMany and save(), may fail; a request arrives when the
\* requests before it have been answered, and the clock advances between
\* requests: the entries of a batch read it in the same millisecond
NextFaults ==
    \/ /\ started < MaxImageRequests
       /\ \A r \in inflight : r.pc = "detached"
       /\ \E body \in AddGoatFaultBodies : AddGoatReceive(body)
    \/ \E r \in inflight : AddGoatUpsert(r)
    \/ \E r \in AddGoatAt("find") :
          \E found \in BOOLEAN :
             \E stuck \in SUBSET {i.filename : i \in ImagesOf(r.goat.id)} :
                \E broken \in SUBSET (1..Len(r.body.photos)) :
                   \E cut \in SUBSET broken :
                      \E stamps \in (IF found THEN {<<>>} ELSE Stamps(r.body.photos)) :
                         /\ \A k \in DOMAIN stamps : stamps[k] = now
                         /\ AddGoatFindOld(r, stuck, broken, cut, stamps, found)
    \/ \E r \in AddGoatAt("delete") :
          \E deleted \in BOOLEAN :
             \E broken \in SUBSET (1..Len(r.body.photos)) :
                \E cut \in SUBSET broken :
                   \E stamps \in Stamps(r.body.photos) :
                      /\ \A k \in DOMAIN stamps : stamps[k] = now
                      /\ AddGoatDeleteOld(r, broken, cut, stamps, deleted)
    \/ \E r \in AddGoatAt("save") \cup AddGoatAt("detached") :
          \E img \in r.pending : \E ok \in BOOLEAN : AddGoatSaveImage(r, img, ok)
    \/ inflight = {} /\ 0 < started /\ started < MaxImageRequests /\ Tick

\* every handler, on few bodies; a request overlaps a suspended one only
\* among the first MaxImageRequests
NextFrame ==
    \/ /\ started < (IF inflight = {} THEN MaxRequests ELSE MaxImageRequests)
       /\ \/ \E body \in FrameRegisterBodies : RegisterFind(body)
          \/ \E body \in FrameLoginBodies : LoginFind(body)
          \/ ApiFarms
          \/ \E id \in UserUrlIds : ApiFarm(id)
          \/ \E body \in AddGoatReadBodies : AddGoatReceive(body)
          \/ \E id \in 1..minted : \E body \in MarketBodies : UpdateGoat(id, body)
          \/ \E id \in 1..minted : DeleteGoatFind(id)
          \/ \E id \in 1..minted : GetGoat(id)
          \/ \E userId \in {u.id : u \in users} : GetGoats(userId)
          \/ ApiGoats
          \/ Goats
    \/ NextUserSteps
    \/ NextGoatSteps

\* POST /add-goat of two owners for one tag, and the lists of the owners; a
\* request overlaps a suspended one only among the first MaxImageRequests
NextOwners ==
    \/ /\ started < (IF inflight = {} THEN MaxRequests ELSE MaxImageRequests)
       /\ \/ \E body \in AddGoatOwnerBodies : AddGoatReceive(body)
          \/ \E id \in 1..minted : DeleteGoatFind(id)
          \/ \E userId \in {GoatBody1.owner, GoatBody2.owner} : GetGoats(userId)
    \/ NextGoatSteps
    \/ Tick

Next == NextUsers \/ NextRecords \/ NextImages \/ NextReads \/ NextMarket

Spec == Init /\ [][Next]_vars

SpecUsers == Init /\ [][NextUsers]_vars

SpecRecords == Init /\ [][NextRecords]_vars

SpecImages == Init /\ [][NextImages]_vars

SpecReads == Init /\ [][NextReads]_vars

SpecMarket == Init /\ [][NextMarket]_vars

SpecFrame == Init /\ [][NextFrame]_vars

SpecFaults == Init /\ [][NextFaults]_vars

SpecOwners == Init /\ [][NextOwners]_vars

\* POST /add-goat with photos, for two goats; the requests overlap and every
\* entry of a batch reads the clock, which advances at any entry
NextStamps ==
    \/ /\ started < MaxImageRequests
       /\ \E body \in AddGoatStampBodies : AddGoatReceive(body)
    \/ \E r \in inflight : AddGoatUpsert(r)
    \/ \E r \in inflight : AddGoatFindOld(r, {}, {}, {}, <<>>, TRUE)
    \/ \E r \in AddGoatAt("delete") :
          \E stamps \in Stamps(r.body.photos) : AddGoatDeleteOld(r, {}, {}, stamps, TRUE)
    \/ \E r \in AddGoatAt("save") :
          \E img \in r.pending : AddGoatSaveImage(r, img, TRUE)

SpecStamps == Init /\ [][NextStamps]_vars

\* the uploads sent to the first version: a file with the id of a goat,
\* with no id, with an id that is no ObjectId, and an id without a file; the
\* body of a file arrives in chunks of the given numbers of bytes
UploadBodies ==
    { [originalname |-> "x", goatId |-> 1, chunks |-> <<2, 1>>],
      [originalname |-> "x", chunks |-> <<1>>],
      [originalname |-> "x", goatId |-> BadId, chunks |-> <<1>>], [goatId |-> 1] }

\* the first version of the server
NextLegacy ==
    \/ /\ started < MaxRequests
       /\ \/ \E body \in RegisterBodies : RegisterLegacy(body)
          \/ \E body \in AddGoatRecordBodies : AddGoatLegacy(body)
          \/ \E upload \in UploadBodies : UploadLegacy(upload)
    \/ \E r \in inflight : RegisterLegacySave(r)
    \/ \E r \in inflight : AddGoatLegacySave(r)
    \/ \E r \in inflight : UploadLegacyOpen(r)
    \/ \E r \in inflight : UploadLegacyWrite(r)
    \/ \E r \in inflight : UploadLegacyStored(r)
    \/ \E r \in inflight : UploadLegacySave(r)
    \/ Tick

SpecLegacy == Init /\ [][NextLegacy]_vars

(***************************************************************************)
(* Properties                                                              *)
(***************************************************************************)
IsClientError(status) == status \in 400..499

\* two e-mail addresses equal up to letter case and surrounding whitespace
SameEmail(e1, e2) == ToLower(Trim(e1)) = ToLower(Trim(e2))

\* the well-formed entries of a photos list
WellFormed(photos) == {k \in 1..Len(photos) : PhotoMatches(photos[k])}

\* the response now in `last` was sent by this step
Answered(kind, status) ==
    /\ last'.rid # last.rid
    /\ last'.kind = kind
    /\ last'.status = status

\* the suspended request r takes a step: it is gone or is at another point;
\* the arrival of a request changes nothing of r but its `alone`
Moved(r) == \A q \in inflight' : q.rid = r.rid => [q EXCEPT !.alone = r.alone] # r

\* the POST /add-goat requests whose upsert this step ran with success:
\* the request goes on to its images or is answered 200
UpsertingNow ==
    { r \in Suspended("add-goat") :
        /\ r.pc = "upsert"
        /\ Moved(r)
        /\ \/ \E q \in inflight' : q.rid = r.rid
           \/ last'.rid = r.rid /\ last'.status = 200 }

\* the bodies of these requests
UpsertedNow == { r.body : r \in UpsertingNow }

\* C1: every successful POST /add-goat that carries all eight fields leaves
\* exactly one goat with its (trimmed) tag, whose owner, name, gender, breed,
\* birthDate, weight, height and healthStatus are those of that call, whatever
\* an earlier call with the same tag stored.
C1_UpsertKeepsOneGoat ==
    [][\A body \in UpsertedNow :
          GoatSetFields \subseteq DOMAIN body
          => /\ Cardinality({g \in goats' : g.rfidTag = Trim(body.rfidTag)}) = 1
             /\ \A g \in goats' :
                   g.rfidTag = Trim(body.rfidTag)
                   => \A f \in GoatSetFields :
                         g[f] = IF f = "name" THEN Trim(body[f]) ELSE body[f]]_vars

\* a second call has answered 200 for a tag whose goat held other values
C1_Witness ==
    /\ last.kind = "add-goat"
    /\ last.status = 200
    /\ \E g \in last.req.prev :
          /\ \A f \in GoatSetFields : Has(g, f) /\ g[f] # last.payload.goat[f]
          /\ g.id = last.payload.goat.id
    /\ Cardinality(GoatsByTag(last.payload.goat.rfidTag)) = 1

\* C2: no two stored goats have the same RFID tag.
C2_TagsUnique ==
    \A g1 \in goats : \A g2 \in goats : g1.rfidTag = g2.rfidTag => g1 = g2

\* a PUT /update-goat that carried the tag of another goat was refused
C2_Witness ==
    /\ last.kind = "update-goat"
    /\ last.status = 500
    /\ last.payload = Error("E11000 duplicate key")
    /\ Cardinality(goats) = 2

\* C3: a POST /add-goat with n >= 1 well-formed photos that ran with no
\* other request, on a goat that had k >= 0 images, answers with the goat
\* having exactly n image records, none of the k old records, and none
\* of the k old blobs on disk.
C3_Replacement ==
    [][(Answered("add-goat", 200) /\ last'.alone /\ HasPhotos(last'.req.body)
            /\ WellFormed(last'.req.body.photos) # {})
        => /\ Cardinality({i \in images' : i.goatId = last'.payload.goat.id})
                = Cardinality(WellFormed(last'.req.body.photos))
           /\ last'.req.before \cap images' = {}
           /\ \A i \in last'.req.before : BlobOf(i) \notin files']_vars

\* two old images were replaced by one new image
C3_Witness ==
    /\ last.kind = "add-goat"
    /\ last.status = 200
    /\ last.alone
    /\ HasPhotos(last.req.body)
    /\ Cardinality(last.req.before) = 2
    /\ Cardinality(WellFormed(last.req.body.photos)) = 1
    /\ Cardinality(ImagesOf(last.payload.goat.id)) = 1

\* C4: when DELETE /delete-goat/:id answers 200 no Image record references
\* the id and GET /get-goat/:id answers 404; and an id that GET /get-goat
\* answers 404 for after it was generated is answered 404 ever after.
C4_DeleteCascades ==
    [][/\ \A r \in Suspended("delete-goat") :
             DeleteGoatImages(r)
             => /\ {i \in images' : i.goatId = r.id} = {}
                /\ GetGoatResponse(r.id, <<>>)'.status = 404
       /\ \A id \in 1..minted :
             GetGoatResponse(id, <<>>).status = 404 => GetGoatResponse(id, <<>>)'.status = 404]_vars

\* a goat that had images was deleted
C4_Witness ==
    /\ last.kind = "delete-goat"
    /\ last.status = 200
    /\ last.req.goat # {}
    /\ last.req.images # {}
    /\ ImagesOf(last.req.id) = {}
    /\ GetGoatResponse(last.req.id, <<>>).status = 404

\* C5: a POST /register whose email equals, up to letter case and surrounding
\* whitespace, that of a stored user answers 400 "Email already exists." and
\* leaves the users collection as it was.
C5_DuplicateEmail ==
    [][\A body \in RegisterBodies :
          (RegisterFind(body) /\ Has(body, "email")
             /\ \E u \in users : SameEmail(u.email, body.email))
          => /\ Answered("register", 400)
             /\ last'.payload = Error("Email already exists.")
             /\ users' = users]_vars

\* the refused email differs from the stored one in case and whitespace
C5_Witness ==
    /\ last.kind = "register"
    /\ last.status = 400
    /\ Has(last.req, "email")
    /\ \E u \in users : u.email # last.req.email /\ SameEmail(u.email, last.req.email)
    /\ Cardinality(users) = 1

\* the user objects a response carries
UsersIn(answer) ==
    CASE answer.kind = "register" /\ answer.status = 201 -> {answer.payload}
      [] answer.kind = "login" /\ answer.status = 200 -> {answer.payload.user}
      [] answer.kind = "farms" -> answer.payload.farms
      [] answer.kind = "farm" /\ answer.status = 200 -> {answer.payload}
      [] answer.kind = "get-goat" /\ answer.status = 200 -> {answer.payload.ownerDetails}
      [] OTHER -> {}

\* C6: no response carries a password field.
C6_NoPassword == \A u \in UsersIn(last) : ~Has(u, "password")

\* the password of the body is the one that was hashed into the user
PasswordMatches(u, body) ==
    Has(body, "password") /\ u.password = BcryptHash(body.password)

\* C7: POST /login has exactly three outcomes: it answers "User not found"
\* when no user has the email, "Invalid credentials" when a user has it and
\* the password of the body does not match the stored hash, and otherwise
\* the user without its password; the users collection is unchanged.
C7_LoginOutcomes ==
    [][/\ \A body \in LoginBodies :
             LoginFind(body)
             => /\ users' = users
                /\ IF Has(body, "email") /\ \E u \in users : SameEmail(u.email, body.email)
                   THEN last' = last /\ \E r \in Suspended("login")' : r.rid = started'
                   ELSE /\ Answered("login", 400)
                        /\ last'.payload = Error("User not found")
       /\ \A r \in Suspended("login") :
             LoginCompare(r)
             => LET known == {u \in users : SameEmail(u.email, r.body.email)}
                IN /\ users' = users
                   /\ known # {}
                   /\ last'.kind = "login"
                   /\ last'.rid = r.rid
                   /\ IF \A u \in known : ~PasswordMatches(u, r.body)
                      THEN /\ last'.status = 400
                           /\ last'.payload = Error("Invalid credentials")
                      ELSE /\ last'.status = 200
                           /\ ~Has(last'.payload.user, "password")
                           /\ \E u \in known :
                                 /\ PasswordMatches(u, r.body)
                                 /\ last'.payload.user = Drop(u, {"password"})]_vars

\* C8: a POST /add-goat whose body violates the goat schema answers 4xx and
\* neither creates a goat nor changes one.
C8_SchemaViolationRejected ==
    (/\ last.kind = "add-goat"
     /\ ~GoatSchemaValid(Drop(last.req.body, {"photos"})))
    => /\ IsClientError(last.status)
       /\ \A g \in GoatsByTag(Trim(last.req.body.rfidTag)) : g \in last.req.prev

\* C9: a POST /register that lacks one of email, password, farmName and
\* address answers 4xx, and no user is created.
C9_MissingFieldRejected ==
    (last.kind = "register" /\ ~(UserRequired \subseteq DOMAIN last.req))
    => IsClientError(last.status) /\ \A u \in users : UserValid(u)

\* C10: a PUT /update-goat/:id whose id is malformed or is the id of no
\* stored goat answers 404.
C10_UnknownIdNotFound ==
    (last.kind = "update-goat" /\ last.req.found = {}) => last.status = 404

\* the response now in `last` was sent by this step, by this handler
Sent(kind) == last'.rid # last.rid /\ last'.kind = kind

\* the stored goats as a list of response items shows them: every item is a
\* stored goat of the set and every goat of the set is one item
ShowsExactly(list, stored) ==
    /\ Len(list) = Cardinality(stored)
    /\ {list[k].id : k \in 1..Len(list)} = {g.id : g \in stored}
    /\ \A k \in 1..Len(list) : \A g \in stored :
          g.id = list[k].id => \A f \in DOMAIN g : Has(list[k], f) /\ list[k][f] = g[f]

\* C11: GET /get-goat/:id answers 404 when the id is malformed or the id of
\* no stored goat; otherwise it answers with the goat and an images list in
\* which every imageUrl occurs as often as Image records of that goat have
\* it; the collections and the uploads directory are unchanged.
C11_GetGoat ==
    [][Sent("get-goat")
       => LET id == last'.req.id
              found == {g \in goats : g.id = id}
              mine == {i \in images : i.goatId = id}
          IN /\ <<users, goats, images, files>>' = <<users, goats, images, files>>
             /\ IF id = BadId \/ found = {}
                THEN last'.status = 404
                ELSE LET list == last'.payload.images
                     IN /\ last'.status = 200
                        /\ \A g \in found : \A f \in GetGoatProjected \cap DOMAIN g :
                              last'.payload[f] = g[f]
                        /\ Len(list) = Cardinality(mine)
                        /\ \A i \in mine :
                              Cardinality({k \in 1..Len(list) : list[k] = i.imageUrl})
                                = Cardinality({j \in mine : j.imageUrl = i.imageUrl})]_vars

\* a goat with two images was fetched while another goat was stored
C11_Witness ==
    /\ last.kind = "get-goat"
    /\ last.status = 200
    /\ Len(last.payload.images) = 2
    /\ last.payload.images[1] # last.payload.images[2]
    /\ \E g \in goats : g.id # last.req.id

\* C12: GET /api/goats answers with exactly the stored goats whose isForSale
\* is true, each once.
C12_FeedIsForSale ==
    [][Sent("api-goats")
       => /\ last'.status = 200
          /\ ShowsExactly(last'.payload.goats, {g \in goats : g.isForSale = TRUE})]_vars

\* the feed shows the goat that a PUT /update-goat listed and not the goat
\* that was never listed
C12_Witness ==
    /\ last.kind = "api-goats"
    /\ Len(last.payload.goats) = 1
    /\ last.payload.goats[1].price = 5
    /\ \E g \in goats : ~g.isForSale

\* C13: in the feed of GET /api/goats and of GET /goats a goat whose
\* added/listed timestamp is later than another's appears before it.
C13_NewestFirst ==
    last.kind \in {"api-goats", "goats"}
    => LET list == last.payload.goats
       IN \A i \in 1..Len(list) : \A j \in 1..Len(list) :
             list[i].addedAt > list[j].addedAt => i < j

\* C14: GET /get-goats/:userId answers with exactly the stored goats whose
\* owner is userId, each once (the empty list when there are none), in
\* descending order of addedAt.
C14_GoatsOfOwner ==
    [][Sent("get-goats")
       => /\ last'.status = 200
          /\ LET list == last'.payload.goats
             IN
             /\ ShowsExactly(list, {g \in goats : g.owner = last'.req.userId})
             /\ \A i \in 1..Len(list) : \A j \in 1..Len(list) :
                   i < j => list[i].addedAt >= list[j].addedAt]_vars

\* C15: the users collection changes only when a POST /register saves its
\* user, which adds one user; every other step of every handler leaves it as
\* it was, and a stored user keeps its email, farm name, address and
\* password hash.
C15_UsersFrame ==
    [][/\ users' # users
          => /\ \E r \in Suspended("register") : r \notin inflight' /\ last'.rid = r.rid
             /\ Cardinality(users') = Cardinality(users) + 1
       /\ \A u \in users : \E v \in users' :
             /\ v.id = u.id
             /\ \A f \in UserRequired : v[f] = u[f]]_vars

\* with a user stored, a goat of that user was added and then updated
C15_Witness ==
    /\ last.kind = "update-goat"
    /\ last.status = 200
    /\ \E u \in users : u.id = last.payload.owner

\* the add-goat requests that this step moves from one await to the next,
\* or to their end
Resumed(pc) ==
    {r \in Suspended("add-goat") : r.pc = pc /\ Moved(r)}

\* the call of the store that the cleanup of the request r, which takes this
\* step, has seen rejected so far: "none", "find" or "deleteMany"
CleanupFailure(r) ==
    IF \E q \in inflight' : q.rid = r.rid
    THEN (CHOOSE q \in inflight' : q.rid = r.rid).failed
    ELSE last'.req.failed

\* the Image documents that the map of the request r builds or has built,
\* with the readings of the clock that the request keeps once the map has run
Batch(r) ==
    NewImages(r.rid, r.goat.id, r.body.photos,
              IF \E q \in inflight' : q.rid = r.rid
              THEN (CHOOSE q \in inflight' : q.rid = r.rid).stamps
              ELSE last'.req.stamps)

\* the POST /add-goat requests that run their photos.map in this step: after
\* deleteMany, or after a find that was rejected
Mapping ==
    Resumed("delete") \cup {r \in Resumed("find") : CleanupFailure(r) = "find"}

\* C16: an Image record leaves the store only in the cleanup pass of a
\* POST /add-goat of another request for the goat of the record, or in a
\* DELETE /delete-goat of that goat; so the records a request wrote are
\* lost only to a request that ran at the same time or after it.
C16_LostToCleanup ==
    [][\A i \in images :
          i \notin images'
          => \/ \E r \in Resumed("delete") : r.goat.id = i.goatId /\ r.rid # i.id[1]
             \/ \E r \in Suspended("delete-goat") :
                   Moved(r) /\ r.id = i.goatId]_vars

\* both requests were answered 200, they overlapped, and a record that the
\* one answered last had written is gone: the cleanup pass of the other
\* deleted it between two saves of the batch
C16_Witness ==
    /\ last.kind = "add-goat"
    /\ last.status = 200
    /\ ~last.alone
    /\ inflight = {}
    /\ HasPhotos(last.req.body)
    /\ \E e \in last.resumed : e.rid # last.rid /\ e.kind = "add-goat" /\ e.status = 200
    /\ Cardinality({i \in images : i.id[1] = last.rid})
         < Cardinality(WellFormed(last.req.body.photos))
    /\ \E i \in images : i.id[1] # last.rid /\ i.goatId = last.payload.goat.id

\* C17: in a POST /add-goat batch the write of one entry that fails leaves
\* the other well-formed entries written and their saves issued, and when
\* the response is sent no save of the batch is still on its way.
C17_AllSettled ==
    [][/\ \A r \in Mapping :
             \A i \in Batch(r) :
                \/ /\ BlobOf(i) \in files'
                   /\ \E q \in inflight' : q.rid = r.rid /\ i \in q.pending
                \/ /\ last'.rid = r.rid
                   /\ i.id[2] + 1 \in last'.req.broken
       /\ Sent("add-goat") => \A q \in inflight' : q.rid # last'.rid]_vars

\* an entry of the form data:<media-type>;base64,<payload>
IsDataUrl(p) ==
    p.scheme = "data:" /\ p.media # <<>> /\ p.marker = ";base64," /\ p.payload # <<>>

\* C18: a POST /add-goat whose photos hold an entry that is not of the form
\* data:<media-type>;base64,<payload> answers 200, and when no other request
\* ran with it the goat has as many Image records as the batch has
\* entries of that form.
C18_MalformedSkipped ==
    [][(Sent("add-goat") /\ HasPhotos(last'.req.body)
          /\ \E k \in 1..Len(last'.req.body.photos) : ~IsDataUrl(last'.req.body.photos[k]))
       => /\ last'.status = 200
          /\ last'.alone
             => Cardinality({i \in images' : i.goatId = last'.payload.goat.id})
                  = Cardinality({k \in 1..Len(last'.req.body.photos) :
                                    IsDataUrl(last'.req.body.photos[k])})]_vars

\* a batch of one malformed and one well-formed entry left one record
C18_Witness ==
    /\ last.kind = "add-goat"
    /\ last.status = 200
    /\ last.alone
    /\ HasPhotos(last.req.body)
    /\ Len(last.req.body.photos) = 2
    /\ ~IsDataUrl(last.req.body.photos[1])
    /\ Cardinality(ImagesOf(last.payload.goat.id)) = 1

\* C19: in the cleanup of POST /add-goat every old blob whose unlink did
\* not throw is removed, whatever unlink threw on; the deleteMany that
\* follows, when the store does not reject it, removes every old Image
\* record of the goat; and an error answer of the request is that of a write
\* or a save, never that of an unlink.
C19_CleanupGoesOn ==
    [][/\ \A r \in Resumed("find") :
             \A q \in inflight' :
                (q.rid = r.rid /\ q.pc = "delete")
                => \A i \in images :
                      i.goatId = r.goat.id
                      => \/ i.filename \in q.stuck
                         \/ \A f \in files' : f.name # i.filename
       /\ \A r \in Resumed("delete") :
             CleanupFailure(r) = "none"
             => \A i \in images : i.goatId = r.goat.id => i \notin images'
       /\ (Sent("add-goat") /\ last'.status # 200)
          => last'.payload \in {Error("write failed"), Error("save failed")}]_vars

\* the request was answered 200 although the unlink of an old blob threw:
\* that blob is still on disk, the other old blob and both old records are gone
C19_Witness ==
    /\ last.kind = "add-goat"
    /\ last.status = 200
    /\ Cardinality(last.req.before) = 2
    /\ Cardinality(last.req.stuck) = 1
    /\ \E i \in last.req.before : BlobOf(i) \in files /\ i.filename \in last.req.stuck
    /\ \E i \in last.req.before : \A f \in files : f.name # i.filename
    /\ last.req.before \cap images = {}

\* C20: no two Image records have the same filename.
C20_FilenamesUnique ==
    \A i \in images : \A j \in images : i.filename = j.filename => i = j

\* C20, amended: two Image records of the same filename are entries of the
\* same index of two different requests for the same goat; the records of one
\* batch, of different goats and of different indices have different
\* filenames.
C20_FilenamesUniquePerBatch ==
    \A i \in images : \A j \in images :
       (i # j /\ i.filename = j.filename)
       => /\ i.id[1] # j.id[1]
          /\ i.goatId = j.goatId
          /\ i.id[2] = j.id[2]

\* two requests for one goat have each left two records: two entries of one
\* index read the clock in the same millisecond and have the same filename,
\* the two entries of the other index read it in different milliseconds and
\* have different filenames
C20_Witness ==
    \E i \in images : \E j \in images : \E k \in images : \E l \in images :
       /\ i.id[1] # j.id[1]
       /\ i.filename = j.filename
       /\ k.id[1] = i.id[1]
       /\ l.id[1] = j.id[1]
       /\ k.goatId = l.goatId
       /\ k.id[2] = l.id[2]
       /\ k.filename # l.filename

\* C21: a POST /register that carried email, name and password was answered
\* 201 or, its email being taken, with the 400 of the conflict, and exactly
\* one user with its (normalised) email is stored, also when another
\* POST /register of the same email ran at the same time.
C21_RegisterRace ==
    (last.kind = "register" /\ UserRequired \subseteq DOMAIN last.req)
    => /\ last.status \in {201, 400}
       /\ Cardinality({u \in users : SameEmail(u.email, last.req.email)}) = 1

\* C22: every stored goat has a gender, which is Male or Female.
C22_GenderValid ==
    \A g \in goats : Has(g, "gender") /\ g.gender \in GoatGenders

\* the goat that the latest upsert has stored: that of the POST /add-goat
\* which was received last, with no request in flight and none received
\* since, and which has passed its upsert
LastUpserted ==
    {r.goat : r \in {q \in Suspended("add-goat") :
                        q.rid = started /\ q.alone /\ q.pc # "upsert"}}
    \cup (IF last.rid = started /\ last.kind = "add-goat" /\ last.status = 200
              /\ last.alone
           THEN {last.payload.goat} ELSE {})

\* the upsert of this step stores the time of the call as addedAt, which is
\* not less than the addedAt the goat had
AddedAtIsNow ==
    \A r \in UpsertingNow :
       \A g \in goats' :
          g.rfidTag = Trim(r.body.rfidTag)
          => /\ g.addedAt = r.at
             /\ \A h \in goats : h.id = g.id => h.addedAt <= g.addedAt

\* the upsert of this step stores the time at which the request was received
\* as addedAt; it is less than the addedAt the goat had only when a request
\* for the tag that was received later has upserted first
AddedAtIsReception ==
    \A r \in UpsertingNow :
       \A g \in goats' :
          g.rfidTag = Trim(r.body.rfidTag)
          => /\ g.addedAt = r.at
             /\ r.at <= now
             /\ \A h \in goats :
                   (h.id = g.id /\ h.addedAt > g.addedAt)
                   => /\ ~r.alone
                      /\ r.rid < started

\* C23: every POST /add-goat that upserts sets the goat's addedAt to the
\* time of the call, so addedAt never decreases across upserts, and a
\* GET /get-goats of the owner that follows the upsert has the upserted goat
\* as the first element of its list.
C23_LatestFirst ==
    [][/\ AddedAtIsNow
       /\ (Sent("get-goats") /\ last'.status = 200)
          => \A g \in LastUpserted :
                g.owner = last'.req.userId => last'.payload.goats[1].id = g.id]_vars

\* C23, amended: every POST /add-goat that upserts sets the goat's addedAt
\* to the time at which the request was received, which is before the upsert
\* lands; addedAt decreases across upserts only when a request received
\* later has upserted the tag first; and in a GET /get-goats of the owner
\* every stored goat of the owner, the one upserted last among them, is
\* listed and no goat of an earlier addedAt precedes it; a goat of the owner
\* with the same addedAt can precede it.
C23_LatestBeforeEarlier ==
    [][/\ AddedAtIsReception
       /\ (Sent("get-goats") /\ last'.status = 200)
          => \A g \in goats :
                MatchesOwner(g, last'.req.userId)
                => LET list == last'.payload.goats
                   IN \E p \in 1..Len(list) :
                         /\ list[p].id = g.id
                         /\ \A k \in 1..(p - 1) : list[k].addedAt >= g.addedAt]_vars

\* a POST /add-goat was answered 200 for a goat whose addedAt it has lowered:
\* a request for the tag that was received after it had upserted before it
AddedAtLowered ==
    /\ last.kind = "add-goat"
    /\ last.status = 200
    /\ \E p \in last.req.prev : p.addedAt > last.payload.goat.addedAt
    /\ last.payload.goat \in goats

\* every request before the GET /get-goats has created a goat, and the list
\* of the owner shows the goat created last behind the goat created before
\* it in the same millisecond
C23_Witness ==
    /\ last.kind = "get-goats"
    /\ last.status = 200
    /\ last.rid = minted + 1
    /\ Len(last.payload.goats) = 2
    /\ last.payload.goats[1].addedAt = last.payload.goats[2].addedAt
    /\ last.payload.goats[1].id < last.payload.goats[2].id

\* the paths of a goat that the $set of POST /add-goat overwrites
Overwritten == GoatSetFields \cup {"addedAt"}

\* C24: a successful POST /add-goat on a tag that exists leaves every path
\* of the goat outside owner, name, gender, breed, birthDate, weight, height,
\* healthStatus and addedAt as it was, price, isForSale and isSold among
\* them; on a tag that does not exist the created goat has price 0 and is
\* neither for sale nor sold.
C24_MarketFieldsKept ==
    [][(Sent("add-goat") /\ last'.status = 200
          /\ \E r \in UpsertingNow : r.rid = last'.rid)
       => LET goat == last'.payload.goat
              prev == last'.req.prev
          IN /\ goat \in goats'
             /\ {"price", "isForSale", "isSold"} \subseteq DOMAIN goat
             /\ IF prev # {}
                THEN \A g \in prev :
                        /\ g \in goats
                        /\ DOMAIN g \subseteq DOMAIN goat
                        /\ \A f \in DOMAIN g \ Overwritten : goat[f] = g[f]
                ELSE /\ goat.price = 0
                     /\ goat.isForSale = FALSE
                     /\ goat.isSold = FALSE]_vars

\* a goat that PUT /update-goat had marked as sold and put on sale at a price
\* was upserted again later: it is still sold and on sale at that price, with
\* a new addedAt
C24_Witness ==
    /\ last.kind = "add-goat"
    /\ last.status = 200
    /\ \E g \in last.req.prev :
          /\ g.isForSale
          /\ g.isSold
          /\ last.payload.goat.isSold
          /\ g.price > 0
          /\ g.addedAt < last.payload.goat.addedAt
          /\ last.payload.goat.price = g.price
          /\ last.payload.goat.isForSale
    /\ last.payload.goat \in goats

\* C25: a POST /add-goat without photos, or with an empty list of photos,
\* is answered by the step that upserts the goat, without cleanup and without
\* writes: the Image records and the files of the uploads directory are the
\* same after it as before it.
C25_NoPhotosNoWrites ==
    [][(Sent("add-goat") /\ last'.status = 200
          /\ (Has(last'.req.body, "photos") => Len(last'.req.body.photos) = 0))
       => /\ \E r \in UpsertingNow : r.rid = last'.rid
          /\ \A q \in inflight' : q.rid # last'.rid
          /\ images' = images
          /\ files' = files]_vars

\* a request with an empty list of photos was answered for a goat that has
\* the images, on disk, that it had when the request arrived
C25_Witness ==
    /\ last.kind = "add-goat"
    /\ last.status = 200
    /\ Has(last.req.body, "photos")
    /\ last.req.body.photos = <<>>
    /\ last.req.before # {}
    /\ last.req.before = ImagesOf(last.payload.goat.id)
    /\ \A i \in last.req.before : BlobOf(i) \in files

\* C26: a POST /add-goat whose photos are a non-empty list of malformed
\* entries only is answered 200 after the cleanup: the deleteMany has removed
\* the records of the goat and nothing is written; when no other request ran
\* with it, the goat has no Image record and none of its old blobs is on disk.
C26_OnlyMalformed ==
    [][(Sent("add-goat") /\ Has(last'.req.body, "photos")
          /\ Len(last'.req.body.photos) > 0
          /\ \A k \in 1..Len(last'.req.body.photos) : ~IsDataUrl(last'.req.body.photos[k]))
       => /\ last'.status = 200
          /\ \E r \in Resumed("delete") : r.rid = last'.rid
          /\ images' = {i \in images : i.goatId # last'.payload.goat.id}
          /\ files' = files
          /\ last'.alone
             => /\ \A i \in images' : i.goatId # last'.payload.goat.id
                /\ \A i \in last'.req.before : BlobOf(i) \notin files']_vars

\* a request with one malformed entry was answered for a goat that had
\* images: no record of the goat and none of the old blobs is left
C26_Witness ==
    /\ last.kind = "add-goat"
    /\ last.status = 200
    /\ last.alone
    /\ Has(last.req.body, "photos")
    /\ Len(last.req.body.photos) = 1
    /\ ~IsDataUrl(last.req.body.photos[1])
    /\ last.req.before # {}
    /\ ImagesOf(last.payload.goat.id) = {}
    /\ \A i \in last.req.before : BlobOf(i) \notin files

\* C27: when no request is in flight, the goat that an Image record refers
\* to exists.
C27_ImagesReferToGoats ==
    inflight = {} => \A i \in images : \E g \in goats : g.id = i.goatId

\* C28: a DELETE /delete-goat/:id with a well-formed id that no goat has
\* is answered with the confirmation of a deletion, and neither of its steps
\* changes the goats or the Image records.
C28_DeleteIdempotent ==
    [][/\ \A r \in Suspended("delete-goat") :
             (Moved(r) /\ r.goat = {}) => goats' = goats /\ images' = images
       /\ (Sent("delete-goat") /\ last'.req.id # BadId /\ last'.req.goat = {})
          => /\ last'.status = 200
             /\ last'.payload = [message |-> "Goat deleted successfully"]
             /\ goats' = goats
             /\ images' = images]_vars

\* the ids of the goats in a list of GET /get-goats
ListedIds(list) == {list[k].id : k \in 1..Len(list)}

\* C29: a POST /add-goat without photos that carries the tag of a stored
\* goat and another owner than the stored one leaves that goat, under the
\* same id and with the same Image records, with the owner of the request;
\* every GET /get-goats list of the new owner then has the goat and no list
\* of the previous owner has it, and so has the GET /get-goats that follows.
C29_Reassigned ==
    [][/\ \A body \in UpsertedNow :
             \A g \in GoatsByTag(Trim(body.rfidTag)) :
                (~HasPhotos(body) /\ g.owner # body.owner)
                => /\ \E h \in goats' :
                         h.id = g.id /\ h.rfidTag = g.rfidTag /\ h.owner = body.owner
                   /\ images' = images
                   /\ \A list \in SortedDescending({x \in goats' : MatchesOwner(x, body.owner)},
                                                   "addedAt") :
                         g.id \in ListedIds(list)
                   /\ \A list \in SortedDescending({x \in goats' : MatchesOwner(x, g.owner)},
                                                   "addedAt") :
                         g.id \notin ListedIds(list)
       /\ (Sent("get-goats") /\ last'.status = 200)
          => \A g \in LastUpserted :
                g.id \in ListedIds(last'.payload.goats) <=> g.owner = last'.req.userId]_vars

\* the list of the first owner is empty while the goat that this owner added
\* with a photo is stored, with its Image record, under the second owner
C29_Witness ==
    /\ last.kind = "get-goats"
    /\ last.status = 200
    /\ last.req.userId = GoatBody1.owner
    /\ last.payload.goats = <<>>
    /\ \E g \in goats : g.owner = GoatBody2.owner /\ ImagesOf(g.id) # {}

\* the step that this add-goat request takes meets a failure: it leaves the
\* blob of a well-formed entry unwritten, or the save it settles stores nothing
Fails(r) ==
    \/ /\ r \in Mapping
       /\ \E i \in Batch(r) : BlobOf(i) \notin files'
    \/ /\ r.pc = "save"
       /\ images' = images

\* a request was answered 500 for a write that threw after it had opened the
\* file: the file is on disk cut short, and no Image record has its name
WriteCutShort ==
    /\ last.kind = "add-goat"
    /\ last.status = 500
    /\ last.payload = Error("write failed")
    /\ last.req.cut # {}
    /\ \E f \in files :
          /\ f.blob = <<last.rid, 0, "cut">>
          /\ \A i \in images : i.filename # f.name

\* an upload to the first version has written the first chunk of its body
\* and not the second: the file is on disk with part of the body
UploadPartlyWritten ==
    \E r \in Suspended("upload") :
       /\ r.pc = "write"
       /\ r.sent = 1
       /\ Len(r.body.chunks) = 2
       /\ ContentOf(r.filename) = <<<<r.rid, 1>>, <<r.rid, 2>>>>

\* two uploads of one name in one millisecond were written at the same
\* time: the file has bytes of both
UploadMixed ==
    \E f \in files : \E i \in 1..Len(f.blob) : \E j \in 1..Len(f.blob) :
       /\ f.blob[i] # Hole
       /\ f.blob[j] # Hole
       /\ f.blob[i][1] # f.blob[j][1]

\* a write that threw has cut short the file of a record that another
\* request has saved in the same millisecond for the same goat
WriteCutOther ==
    /\ last.kind = "add-goat"
    /\ last.status = 500
    /\ \E i \in images :
          /\ i.id[1] # last.rid
          /\ [name |-> i.filename, blob |-> <<last.rid, i.id[2], "cut">>] \in files

\* C30: a POST /add-goat is answered 500 by the step in which a write or a
\* save of its batch fails, and by no other step after the upsert; some entry
\* of the batch is then neither stored nor on its way (nothing is tried
\* again), the goat as the upsert left it is stored, the Image records that
\* the goat had are gone, when the cleanup met no rejection of the store, and
\* so are their blobs, except those that could not be unlinked, and the
\* records of the batch that were saved are still stored.
C30_NotAtomic ==
    [][\A r \in Suspended("add-goat") :
          (r.pc \in {"find", "delete", "save"} /\ Moved(r))
          => /\ Fails(r) <=> (last'.rid = r.rid /\ last'.status # 200)
             /\ Fails(r)
                => /\ Sent("add-goat")
                   /\ last'.status = 500
                   /\ \E i \in Batch(r) :
                         i \notin images' /\ \A q \in inflight' : i \notin q.pending
                   /\ \A q \in inflight' : q.rid = r.rid => q.pc = "detached"
                   /\ r.goat \in goats'
                   /\ CleanupFailure(r) = "none"
                      => /\ r.before \cap images' = {}
                         /\ \A i \in r.before :
                               i.filename \notin last'.req.stuck
                               => BlobOf(i) \notin files'
                   /\ \A i \in images : i.id[1] = r.rid => i \in images']_vars

\* a request for a goat that had an image was answered 500 for a save that
\* failed: the goat has the addedAt of this request, the old record and its
\* blob are gone, and a record of the batch that was saved is stored
C30_Witness ==
    /\ last.kind = "add-goat"
    /\ last.status = 500
    /\ last.payload = Error("save failed")
    /\ last.req.before # {}
    /\ last.req.before \cap images = {}
    /\ \A i \in last.req.before : BlobOf(i) \notin files
    /\ \E i \in images : i.id[1] = last.rid
    /\ \E g \in goats :
          /\ g.rfidTag = Trim(last.req.body.rfidTag)
          /\ \A p \in last.req.prev : p.id = g.id /\ p.addedAt < g.addedAt

====
